---- MODULE Spec2Model ----
(***************************************************************************)
(* Model of the two "Discipline Farm" backends.                            *)
(*   Variant A  (src/app.py):    SQL table User + cookie session.          *)
(*   Variant B  (src/server.py): users.json rewritten on every mutation.   *)
(* JSON values are trees, JSON text is a sequence of tokens; json.dumps    *)
(* and json.loads are modelled by a printer and a parser over tokens.      *)
(***************************************************************************)
EXTENDS Integers, Sequences, FiniteSets, TLC

VARIABLES
    variant,    \* which backend runs: "A" (app.py) or "B" (server.py)
    users,      \* A: rows of table User, in id order
    session,    \* A: per client cookie, <<>> or <<user_id>>
    file,       \* B: users.json
    resp,       \* the last response sent, with the request fields it answers
    upstream,   \* the weather handler's position and what the upstream calls gave
    pc,         \* B, threaded: each thread's position in its handler
    req,        \* B, threaded: each thread's request
    localdb,    \* B, threaded: each thread's dict db
    started,    \* B, threaded: requests accepted so far
    signups,    \* history: <<username, password>> of every successful signup
    lastSaved,  \* history: per account, the document of the last successful save
    binding     \* history: per client, the username of its last successful
                \* login or signup since its last logout

vars == <<variant, users, session, file, resp, upstream, pc, req, localdb, started,
          signups, lastSaved, binding>>

(***************************************************************************)
(* Python / JSON values.                                                   *)
(***************************************************************************)
J(t, n, s, c) == [t |-> t, n |-> n, s |-> s, c |-> c]

JNull == J("null", 0, "", <<>>)

JBool(b) == J("bool", IF b THEN 1 ELSE 0, "", <<>>)

JNum(i) == J("num", i, "", <<>>)

JStr(s) == J("str", 0, s, <<>>)

JList(c) == J("list", 0, "", c)

JObj(c) == J("obj", 0, "", c)

NoDoc == J("nodoc", 0, "", <<>>)

(* Python dict: pairs <<key, value>> in insertion order, keys unique.      *)
DictHas(d, k) == \E i \in 1..Len(d.c) : d.c[i][1] = k

DictGet(d, k) == d.c[CHOOSE i \in 1..Len(d.c) : d.c[i][1] = k][2]

DictSet(d, k, v) ==
    IF DictHas(d, k)
    THEN JObj([i \in 1..Len(d.c) |-> IF d.c[i][1] = k THEN <<k, v>> ELSE d.c[i]])
    ELSE JObj(Append(d.c, <<k, v>>))

(***************************************************************************)
(* JSON text: tokens.                                                      *)
(***************************************************************************)
Tok(k, n, s) == [k |-> k, n |-> n, s |-> s]

P(s) == Tok("punct", 0, s)

Lit(s) == Tok("lit", 0, s)

NumTok(n) == Tok("num", n, "")

StrTok(s) == Tok("str", 0, s)

Digit == <<"0", "1", "2", "3", "4", "5", "6", "7", "8", "9">>

RECURSIVE IntToStr(_)
IntToStr(n) ==
    IF n < 0 THEN "-" \o IntToStr(0 - n)
    ELSE IF n < 10 THEN Digit[n + 1]
    ELSE IntToStr(n \div 10) \o Digit[(n % 10) + 1]

(* json encoder: a dict key that is not a str is written as a str.         *)
KeyStr(k) ==
    CASE k.t = "str" -> k.s
      [] k.t = "num" -> IntToStr(k.n)
      [] k.t = "bool" -> IF k.n = 1 THEN "true" ELSE "false"
      [] OTHER -> "null"

RECURSIVE dumps(_), DumpElems(_), DumpMembers(_)
dumps(v) ==
    CASE v.t = "null" -> <<Lit("null")>>
      [] v.t = "bool" -> <<Lit(IF v.n = 1 THEN "true" ELSE "false")>>
      [] v.t = "num" -> <<NumTok(v.n)>>
      [] v.t = "str" -> <<StrTok(v.s)>>
      [] v.t = "list" -> <<P("[")>> \o DumpElems(v.c) \o <<P("]")>>
      [] OTHER -> <<P("{")>> \o DumpMembers(v.c) \o <<P("}")>>

DumpElems(c) ==
    IF Len(c) = 0 THEN <<>>
    ELSE IF Len(c) = 1 THEN dumps(c[1])
    ELSE dumps(c[1]) \o <<P(",")>> \o DumpElems(Tail(c))

DumpMembers(c) ==
    IF Len(c) = 0 THEN <<>>
    ELSE <<StrTok(KeyStr(c[1][1])), P(":")>> \o dumps(c[1][2])
         \o (IF Len(c) = 1 THEN <<>> ELSE <<P(",")>> \o DumpMembers(Tail(c)))

ParseOk(v, i) == [ok |-> TRUE, v |-> v, i |-> i]

ParseFail == [ok |-> FALSE, v |-> JNull, i |-> 0]

IsTok(toks, i, p) == i <= Len(toks) /\ toks[i].k = "punct" /\ toks[i].s = p

RECURSIVE ParseValue(_, _), ParseElems(_, _, _), ParseMembers(_, _, _)
ParseValue(toks, i) ==
    IF i > Len(toks) THEN ParseFail
    ELSE LET tk == toks[i] IN
      CASE tk.k = "lit" ->
             ParseOk(IF tk.s = "null" THEN JNull ELSE JBool(tk.s = "true"), i + 1)
        [] tk.k = "num" -> ParseOk(JNum(tk.n), i + 1)
        [] tk.k = "str" -> ParseOk(JStr(tk.s), i + 1)
        [] tk.s = "[" ->
             IF IsTok(toks, i + 1, "]") THEN ParseOk(JList(<<>>), i + 2)
             ELSE ParseElems(toks, i + 1, <<>>)
        [] tk.s = "{" ->
             IF IsTok(toks, i + 1, "}") THEN ParseOk(JObj(<<>>), i + 2)
             ELSE ParseMembers(toks, i + 1, JObj(<<>>))
        [] OTHER -> ParseFail

ParseElems(toks, i, acc) ==
    LET r == ParseValue(toks, i) IN
    IF ~r.ok THEN ParseFail
    ELSE IF IsTok(toks, r.i, ",") THEN ParseElems(toks, r.i + 1, Append(acc, r.v))
    ELSE IF IsTok(toks, r.i, "]") THEN ParseOk(JList(Append(acc, r.v)), r.i + 1)
    ELSE ParseFail

(* a repeated key keeps its first position and takes the last value        *)
ParseMembers(toks, i, acc) ==
    IF ~(i + 1 <= Len(toks) /\ toks[i].k = "str" /\ IsTok(toks, i + 1, ":"))
    THEN ParseFail
    ELSE LET r == ParseValue(toks, i + 2)
             d == DictSet(acc, JStr(toks[i].s), r.v)
         IN IF ~r.ok THEN ParseFail
            ELSE IF IsTok(toks, r.i, ",") THEN ParseMembers(toks, r.i + 1, d)
            ELSE IF IsTok(toks, r.i, "}") THEN ParseOk(d, r.i + 1)
            ELSE ParseFail

(* json.loads / json.load: the whole text must be one value                *)
loads(text) ==
    LET r == ParseValue(text, 1) IN
    IF r.ok /\ r.i = Len(text) + 1 THEN [ok |-> TRUE, v |-> r.v]
    ELSE [ok |-> FALSE, v |-> JNull]

(***************************************************************************)
(* Bounds and input sets.                                                  *)
(***************************************************************************)
MaxWeatherCode == 400

Clients == {1, 2}

Salts == {"s1"}

Passwords == {JStr("p"), JStr("q")}

(* usernames a client can send; Variant B takes whatever JSON value (or    *)
(* None, for a missing field) data.get('username') returns                 *)
UsernamesA == {JStr("a"), JStr("b")}

UsernamesB == {JStr("a"), JStr("5"), JNum(5)}

AccountKeys == {KeyStr(u) : u \in UsernamesA \cup UsernamesB}

Docs == {JNum(7), JObj(<< <<JStr("coins"), JNum(5)>> >>)}

DocsB == {JObj(<< <<JStr("coins"), JNum(5)>> >>)}

(***************************************************************************)
(* Responses.                                                              *)
(***************************************************************************)
Response(op, client, username, password, status, success, data) ==
    [op |-> op, client |-> client, username |-> username, password |-> password,
     status |-> status, success |-> success, data |-> data,
     wtype |-> "", city |-> ""]

NoResponse == Response("none", 0, JNull, JNull, 0, FALSE, NoDoc)

(***************************************************************************)
(* Variant A: src/app.py                                                   *)
(***************************************************************************)
(* werkzeug salted hash: the digest is a function of salt and password     *)
generate_password_hash(password, salt) ==
    [salt |-> salt, digest |-> <<salt, password>>]

check_password_hash(pwhash, password) ==
    pwhash.digest = <<pwhash.salt, password>>

check_password(user, password) == check_password_hash(user.password_hash, password)

get_game_data(user) == loads(user.game_data).v

set_game_data(user, data) == [user EXCEPT !.game_data = dumps(data)]

EmptyPlot ==
    JObj(<< <<JStr("crop"), JNull>>, <<JStr("plantedAt"), JNum(0)>>,
            <<JStr("progress"), JNum(0)>>, <<JStr("ready"), JBool(FALSE)>> >>)

DefaultA ==
    JObj(<< <<JStr("coins"), JNum(0)>>,
            <<JStr("totalSeconds"), JNum(0)>>,
            <<JStr("inventory"),
              JObj(<< <<JStr("wheat"), JNum(0)>>, <<JStr("carrot"), JNum(0)>>,
                      <<JStr("egg"), JNum(0)>>, <<JStr("milk"), JNum(0)>> >>)>>,
            <<JStr("plots"), JList([i \in 1..6 |-> EmptyPlot])>>,
            <<JStr("animals"), JList(<<>>)>>,
            <<JStr("stats"),
              JObj(<< <<JStr("planted"), JNum(0)>>, <<JStr("harvested"), JNum(0)>>,
                      <<JStr("sessions"), JNum(0)>>, <<JStr("tasksCompleted"), JNum(0)>> >>)>>,
            <<JStr("tasks"), JList(<<>>)>>,
            <<JStr("currentTaskId"), JNull>>,
            <<JStr("avatar"), JStr("U+1F464")>>,
            <<JStr("logs"), JList(<<>>)>> >>)

(* the row signup() builds before the password is set (lines 72, 74)       *)
NewUser(username) ==
    set_game_data([id |-> 0, username |-> username,
                   password_hash |-> generate_password_hash(JNull, ""),
                   game_data |-> dumps(JObj(<<>>))],
                  DefaultA)

NewUsers == [u \in UsernamesA |-> NewUser(u)]

(* User.query.filter_by(username=...).first(): row index, 0 for None       *)
filter_by_username(username) ==
    IF \E i \in 1..Len(users) : users[i].username = username
    THEN CHOOSE i \in 1..Len(users) : users[i].username = username
    ELSE 0

(* variant: the handler does not look for user_id                          *)
has_user_id_unchecked(c) == TRUE

(* 'user_id' in session                                                    *)
has_user_id(c) == session[c] # <<>>

(* db.session.get(User, session['user_id']): row index, 0 for None         *)
session_user(c) ==
    IF session[c] # <<>> /\ session[c][1] \in 1..Len(users) THEN session[c][1] ELSE 0

BFrame == UNCHANGED <<file, pc, req, localdb, started, upstream>>

A_login(c, username, password) ==
    /\ variant = "A"
    /\ LET u == filter_by_username(username) IN
       IF u # 0 /\ check_password(users[u], password)
       THEN /\ session' = [session EXCEPT ![c] = <<users[u].id>>]
            /\ binding' = [binding EXCEPT ![c] = username]
            /\ resp' = Response("login", c, username, password, 200, TRUE, NoDoc)
       ELSE /\ session' = session
            /\ binding' = binding
            /\ resp' = Response("login", c, username, password, 401, FALSE, NoDoc)
    /\ UNCHANGED <<variant, users, signups, lastSaved>>
    /\ BFrame

A_signup(c, username, password, salt) ==
    /\ variant = "A"
    /\ IF filter_by_username(username) # 0
       THEN /\ resp' = Response("signup", c, username, JNull, 400, FALSE, NoDoc)
            /\ UNCHANGED <<users, session, signups, binding>>
       ELSE LET user == [NewUsers[username] EXCEPT
                             !.password_hash = generate_password_hash(password, salt),
                             !.id = Len(users) + 1] IN
            /\ users' = Append(users, user)
            /\ session' = [session EXCEPT ![c] = <<user.id>>]
            /\ binding' = [binding EXCEPT ![c] = username]
            /\ signups' = signups \cup {[username |-> username, password |-> password]}
            /\ resp' = Response("signup", c, username, JNull, 200, TRUE, NoDoc)
    /\ UNCHANGED <<variant, lastSaved>>
    /\ BFrame

A_save_game(c, data) ==
    /\ variant = "A"
    /\ IF ~has_user_id(c)
       THEN /\ resp' = Response("save", c, JNull, JNull, 401, FALSE, NoDoc)
            /\ UNCHANGED <<users, lastSaved>>
       ELSE LET u == session_user(c) IN
            IF u = 0
            THEN /\ resp' = Response("save", c, JNull, JNull, 500, FALSE, NoDoc)
                 /\ UNCHANGED <<users, lastSaved>>
            ELSE /\ users' = [users EXCEPT ![u] = set_game_data(users[u], data)]
                 /\ lastSaved' = [lastSaved EXCEPT ![KeyStr(users[u].username)] = data]
                 /\ resp' = Response("save", c, users[u].username, JNull, 200, TRUE, NoDoc)
    /\ UNCHANGED <<variant, session, signups, binding>>
    /\ BFrame

A_load_game(c) ==
    /\ variant = "A"
    /\ IF ~has_user_id(c)
       THEN resp' = Response("load", c, JNull, JNull, 401, FALSE, NoDoc)
       ELSE LET u == session_user(c) IN
            IF u = 0
            THEN resp' = Response("load", c, JNull, JNull, 500, FALSE, NoDoc)
            ELSE resp' = Response("load", c, users[u].username, JNull, 200, TRUE,
                                  get_game_data(users[u]))
    /\ UNCHANGED <<variant, users, session, signups, lastSaved, binding>>
    /\ BFrame

(* variant: logout leaves the cookie as it is                              *)
session_pop_skipped(s, c) == s

(* session.pop('user_id', None)                                            *)
session_pop(s, c) == [s EXCEPT ![c] = <<>>]

A_logout(c) ==
    /\ variant = "A"
    /\ session' = session_pop(session, c)
    /\ binding' = [binding EXCEPT ![c] = NoDoc]
    /\ resp' = Response("logout", c, JNull, JNull, 200, TRUE, NoDoc)
    /\ UNCHANGED <<variant, users, signups, lastSaved>>
    /\ BFrame

(***************************************************************************)
(* Variant B: src/server.py                                                *)
(***************************************************************************)
EmptyDict == JObj(<<>>)

DefaultB ==
    JObj(<< <<JStr("coins"), JNum(0)>>,
            <<JStr("plots"), JList(<<>>)>>,
            <<JStr("animals"), JList(<<>>)>>,
            <<JStr("inventory"), JObj(<<>>)>>,
            <<JStr("stats"),
              JObj(<< <<JStr("sessions"), JNum(0)>>, <<JStr("harvests"), JNum(0)>> >>)>> >>)

NewAccount(password) ==
    JObj(<< <<JStr("password"), password>>, <<JStr("game_data"), DefaultB>> >>)

NoFile == [exists |-> FALSE, text |-> <<>>]

(* open(DB_FILE, 'w'): creates or truncates                                *)
open_w(f) == [exists |-> TRUE, text |-> <<>>]

(* json.dump + close: the buffered text is written at offset 0 of whatever *)
(* the file holds by then; what lies behind the written text stays         *)
write_close(f, text) ==
    [exists |-> TRUE, text |-> text \o SubSeq(f.text, Len(text) + 1, Len(f.text))]

save_db(f, data) == write_close(open_w(f), dumps(data))

(* load_db run in one piece: the dict, whether json.load raised, the file  *)
load_db(f) ==
    IF ~f.exists
    THEN [raised |-> FALSE, db |-> EmptyDict, file |-> write_close(open_w(f), dumps(EmptyDict))]
    ELSE LET r == loads(f.text) IN [raised |-> ~r.ok, db |-> r.v, file |-> f]

Request(op, username, password, game_data) ==
    [op |-> op, username |-> username, password |-> password, game_data |-> game_data]

Outcome(write, db, status, success, data) ==
    [write |-> write, db |-> db, status |-> status, success |-> success, data |-> data]

(* the handlers after db = load_db()                                       *)
signup_body(rq, db) ==
    IF DictHas(db, rq.username)
    THEN Outcome(FALSE, db, 400, FALSE, NoDoc)
    ELSE Outcome(TRUE, DictSet(db, rq.username, NewAccount(rq.password)), 200, TRUE, NoDoc)

login_body(rq, db) ==
    IF DictHas(db, rq.username)
       /\ DictGet(DictGet(db, rq.username), JStr("password")) = rq.password
    THEN Outcome(FALSE, db, 200, TRUE, NoDoc)
    ELSE Outcome(FALSE, db, 401, FALSE, NoDoc)

get_data_body(rq, db) ==
    IF DictHas(db, rq.username)
    THEN Outcome(FALSE, db, 200, TRUE, DictGet(DictGet(db, rq.username), JStr("game_data")))
    ELSE Outcome(FALSE, db, 404, FALSE, NoDoc)

(* variant: the new document is stored in every account                    *)
save_data_body_everyone(rq, db) ==
    IF DictHas(db, rq.username)
    THEN Outcome(TRUE,
                 JObj([i \in 1..Len(db.c) |->
                         <<db.c[i][1], DictSet(db.c[i][2], JStr("game_data"), rq.game_data)>>]),
                 200, TRUE, NoDoc)
    ELSE Outcome(FALSE, db, 404, FALSE, NoDoc)

save_data_body(rq, db) ==
    IF DictHas(db, rq.username)
    THEN Outcome(TRUE,
                 DictSet(db, rq.username,
                         DictSet(DictGet(db, rq.username), JStr("game_data"), rq.game_data)),
                 200, TRUE, NoDoc)
    ELSE Outcome(FALSE, db, 404, FALSE, NoDoc)

Body(rq, db) ==
    CASE rq.op = "signup" -> signup_body(rq, db)
      [] rq.op = "login" -> login_body(rq, db)
      [] rq.op = "get_data" -> get_data_body(rq, db)
      [] OTHER -> save_data_body(rq, db)

Raised == Outcome(FALSE, EmptyDict, 500, FALSE, NoDoc)

ResponseB(rq, t, o) ==
    Response(rq.op, t, rq.username, IF rq.op = "login" THEN rq.password ELSE JNull,
             o.status, o.success, o.data)

(* bookkeeping of what the responses have acknowledged                     *)
Acknowledge(rq, o) ==
    /\ signups' = IF rq.op = "signup" /\ o.success
                  THEN signups \cup {[username |-> rq.username, password |-> rq.password]}
                  ELSE signups
    /\ lastSaved' = IF rq.op = "save_data" /\ o.success
                    THEN [lastSaved EXCEPT ![KeyStr(rq.username)] = rq.game_data]
                    ELSE lastSaved

(* a whole request, run with no other request in between                   *)
Handle(rq) ==
    /\ variant = "B"
    /\ \E l \in {load_db(file)} :
       \E o \in {IF l.raised THEN Raised ELSE Body(rq, l.db)} :
         /\ file' = IF o.write THEN save_db(l.file, o.db) ELSE l.file
         /\ resp' = ResponseB(rq, 0, o)
         /\ Acknowledge(rq, o)
    /\ UNCHANGED <<variant, users, session, pc, req, localdb, started, upstream, binding>>

B_signup(username, password) == Handle(Request("signup", username, password, NoDoc))

B_login(username, password) == Handle(Request("login", username, password, NoDoc))

B_get_data(username) == Handle(Request("get_data", username, JNull, NoDoc))

B_save_data(username, game_data) == Handle(Request("save_data", username, JNull, game_data))

(***************************************************************************)
(* GET /api/weather (src/app.py)                                           *)
(***************************************************************************)
Cloudy == {116, 119, 122}

Rainy == {176, 263, 266, 293, 296, 299, 302, 305, 308, 353, 356, 359}

Snowy == {179, 182, 185, 227, 230, 281, 284, 311, 314, 317, 320, 323, 326, 329,
          332, 335, 338, 350, 362, 365, 368, 371, 374, 377}

(* variant: the thunder codes get a category of their own                  *)
weather_type_stormy(code) ==
    IF code = 113 THEN "sunny"
    ELSE IF code \in Cloudy THEN "cloudy"
    ELSE IF code \in Rainy THEN "rainy"
    ELSE IF code \in Snowy THEN "snowy"
    ELSE IF code \in {386, 389, 392, 395} THEN "stormy"
    ELSE "sunny"

weather_type(code) ==
    IF code = 113 THEN "sunny"
    ELSE IF code \in Cloudy THEN "cloudy"
    ELSE IF code \in Rainy THEN "rainy"
    ELSE IF code \in Snowy THEN "snowy"
    ELSE "sunny"

WeatherResponse(status, success, wtype, city) ==
    [NoResponse EXCEPT !.op = "weather", !.status = status, !.success = success,
                       !.wtype = wtype, !.city = city]

(* variant: the except branch answers with the default city of line 111    *)
weather_except_london == WeatherResponse(200, FALSE, "sunny", "London")

(* line 132                                                                *)
weather_except == WeatherResponse(200, FALSE, "sunny", "Unknown")

(* outcomes of requests.get('https://ipapi.co/json/') and .json():         *)
(*   raise  network error or body that is not JSON                         *)
(*   nodict JSON that is no object (.get raises)                           *)
(*   nocity object without 'city'                                          *)
(*   city   object with 'city'                                             *)
LocOutcomes ==
    {[kind |-> "raise", city |-> ""], [kind |-> "nodict", city |-> ""],
     [kind |-> "nocity", city |-> ""], [kind |-> "city", city |-> "Paris"]}

(* outcomes of the wttr.in request: raise, a missing field, a weatherCode  *)
(* that int() rejects, or a weatherCode that int() turns into code         *)
WeatherCodes == (0 - 1)..MaxWeatherCode

WxOutcomes ==
    {[kind |-> "raise", code |-> 0], [kind |-> "nofield", code |-> 0],
     [kind |-> "nonint", code |-> 0]}
    \cup {[kind |-> "code", code |-> n] : n \in WeatherCodes}

NoOutcome == [kind |-> "none", code |-> 0]

LocFails(loc) == loc.kind \in {"raise", "nodict"}

WxFails(wx) == wx.kind # "code"

AccountFrame ==
    UNCHANGED <<variant, users, session, file, signups, lastSaved,
                pc, req, localdb, started, binding>>

(* lines 109-111: the geolocation call; an exception ends the request      *)
weather_loc(loc) ==
    /\ upstream.pc = "idle"
    /\ IF LocFails(loc)
       THEN /\ upstream' = [pc |-> "idle", loc |-> loc, wx |-> NoOutcome]
            /\ resp' = weather_except
       ELSE /\ upstream' = [pc |-> "city", loc |-> loc, wx |-> NoOutcome]
            /\ resp' = resp
    /\ AccountFrame

(* lines 114-116: the weather call; an exception ends the request          *)
weather_wx(wx) ==
    /\ upstream.pc = "city"
    /\ IF WxFails(wx)
       THEN /\ upstream' = [upstream EXCEPT !.pc = "idle", !.wx = wx]
            /\ resp' = weather_except
       ELSE /\ upstream' = [upstream EXCEPT !.pc = "code", !.wx = wx]
            /\ resp' = resp
    /\ AccountFrame

(* lines 119-130: classification and the reply                             *)
weather_reply ==
    /\ upstream.pc = "code"
    /\ upstream' = [upstream EXCEPT !.pc = "idle"]
    /\ resp' = WeatherResponse(200, TRUE, weather_type(upstream.wx.code),
                               IF upstream.loc.kind = "nocity" THEN "London"
                               ELSE upstream.loc.city)
    /\ AccountFrame

(***************************************************************************)
(* Requests handled one at a time, either variant.                         *)
(***************************************************************************)
Threads == {1, 2}

NoRequest == Request("none", JNull, JNull, NoDoc)

Init ==
    /\ variant \in {"A", "B"}
    /\ users = <<>>
    /\ session = [c \in Clients |-> <<>>]
    /\ file = NoFile
    /\ resp = NoResponse
    /\ signups = {}
    /\ lastSaved = [k \in AccountKeys |-> NoDoc]
    /\ pc = [t \in Threads |-> "idle"]
    /\ req = [t \in Threads |-> NoRequest]
    /\ localdb = [t \in Threads |-> EmptyDict]
    /\ started = 0
    /\ binding = [c \in Clients |-> NoDoc]
    /\ upstream = [pc |-> "idle", loc |-> [kind |-> "none", city |-> ""], wx |-> NoOutcome]

Next ==
    \/ \E c \in Clients, u \in UsernamesA, p \in Passwords : A_login(c, u, p)
    \/ \E c \in Clients, u \in UsernamesA, p \in Passwords, s \in Salts : A_signup(c, u, p, s)
    \/ \E c \in Clients, d \in Docs : A_save_game(c, d)
    \/ \E c \in Clients : A_load_game(c)
    \/ \E c \in Clients : A_logout(c)
    \/ \E u \in UsernamesB, p \in Passwords : B_signup(u, p)
    \/ \E u \in UsernamesB, p \in Passwords : B_login(u, p)
    \/ \E u \in UsernamesB : B_get_data(u)
    \/ \E u \in UsernamesB, d \in DocsB : B_save_data(u, d)

Spec == Init /\ [][Next]_vars

(***************************************************************************)
(* The weather proxy alone.                                                *)
(***************************************************************************)
InitWeather == Init /\ variant = "A"

NextWeather ==
    \/ \E loc \in LocOutcomes : weather_loc(loc)
    \/ \E wx \in WxOutcomes : weather_wx(wx)
    \/ weather_reply

SpecWeather == InitWeather /\ [][NextWeather]_vars

(***************************************************************************)
(* Variant B with requests served by concurrent threads: a handler is      *)
(* split at the file operations of load_db and save_db.                    *)
(***************************************************************************)
MaxRequests == 4

RaceUsernames == {JStr("a"), JStr("b")}

RacePassword == JStr("p")

RaceDoc == JNum(7)

RaceRequests ==
    {Request("signup", u, RacePassword, NoDoc) : u \in RaceUsernames}
    \cup {Request("save_data", u, JNull, RaceDoc) : u \in RaceUsernames}
    \cup {Request("get_data", JStr("a"), JNull, NoDoc),
          Request("login", JStr("a"), RacePassword, NoDoc)}

RaceFrame == UNCHANGED <<variant, users, session, upstream, binding>>

(* variant: only the request's own account is written                      *)
save_payload_own(t) ==
    dumps(JObj(<< <<req[t].username, DictGet(localdb[t], req[t].username)>> >>))

(* what save_db(db) hands to json.dump: the dict the handler read and      *)
(* changed                                                                 *)
save_payload(t) == dumps(localdb[t])

(* the response leaves; the thread is free again                           *)
Reply(t, o) ==
    /\ resp' = ResponseB(req[t], t, o)
    /\ Acknowledge(req[t], o)
    /\ pc' = [pc EXCEPT ![t] = "idle"]
    /\ req' = [req EXCEPT ![t] = NoRequest]
    /\ localdb' = [localdb EXCEPT ![t] = EmptyDict]

(* the handler from the line after db = load_db() up to save_db(db) or to  *)
(* its return                                                              *)
Proceed(t, db) ==
    \E o \in {Body(req[t], db)} :
      IF o.write
      THEN /\ localdb' = [localdb EXCEPT ![t] = o.db]
           /\ pc' = [pc EXCEPT ![t] = "save_open"]
           /\ UNCHANGED <<resp, signups, lastSaved, req>>
      ELSE Reply(t, o)

R_accept(t, rq) ==
    /\ variant = "B"
    /\ pc[t] = "idle"
    /\ started < MaxRequests
    /\ started' = started + 1
    /\ req' = [req EXCEPT ![t] = rq]
    /\ pc' = [pc EXCEPT ![t] = "load"]
    /\ UNCHANGED <<file, resp, signups, lastSaved, localdb>>
    /\ RaceFrame

(* load_db: os.path.exists, then either the branch that creates the file   *)
(* or open + json.load                                                     *)
R_load(t) ==
    /\ pc[t] = "load"
    /\ IF ~file.exists
       THEN /\ pc' = [pc EXCEPT ![t] = "create_open"]
            /\ UNCHANGED <<resp, signups, lastSaved, req, localdb>>
       ELSE \E r \in {loads(file.text)} :
              IF r.ok THEN Proceed(t, r.v) ELSE Reply(t, Raised)
    /\ UNCHANGED <<file, started>>
    /\ RaceFrame

R_create_open(t) ==
    /\ pc[t] = "create_open"
    /\ file' = open_w(file)
    /\ pc' = [pc EXCEPT ![t] = "create_close"]
    /\ UNCHANGED <<resp, signups, lastSaved, req, localdb, started>>
    /\ RaceFrame

R_create_close(t) ==
    /\ pc[t] = "create_close"
    /\ file' = write_close(file, dumps(EmptyDict))
    /\ Proceed(t, EmptyDict)
    /\ UNCHANGED started
    /\ RaceFrame

R_save_open(t) ==
    /\ pc[t] = "save_open"
    /\ file' = open_w(file)
    /\ pc' = [pc EXCEPT ![t] = "save_close"]
    /\ UNCHANGED <<resp, signups, lastSaved, req, localdb, started>>
    /\ RaceFrame

R_save_close(t) ==
    /\ pc[t] = "save_close"
    /\ file' = write_close(file, save_payload(t))
    /\ Reply(t, Outcome(FALSE, EmptyDict, 200, TRUE, NoDoc))
    /\ UNCHANGED started
    /\ RaceFrame

InitRace == Init /\ variant = "B"

NextRace ==
    \/ \E t \in Threads, rq \in RaceRequests : R_accept(t, rq)
    \/ \E t \in Threads : R_load(t)
    \/ \E t \in Threads : R_create_open(t)
    \/ \E t \in Threads : R_create_close(t)
    \/ \E t \in Threads : R_save_open(t)
    \/ \E t \in Threads : R_save_close(t)

SpecRace == InitRace /\ [][NextRace]_vars

(***************************************************************************)
(* Views of the account store used by the properties.                      *)
(***************************************************************************)
(* Variant A: the rows us of User as accounts                              *)
AccountsA(us) ==
    {[name |-> us[i].username.s, cred |-> us[i].password_hash,
      doc |-> get_game_data(us[i])] : i \in 1..Len(us)}

(* Variant B: what load_db would return for users.json in state f ({}      *)
(* while it is absent)                                                     *)
StoreOf(f) == IF f.exists THEN loads(f.text) ELSE [ok |-> TRUE, v |-> EmptyDict]

AccountsOf(d) ==
    {[name |-> d.c[i][1].s, cred |-> DictGet(d.c[i][2], JStr("password")),
      doc |-> DictGet(d.c[i][2], JStr("game_data"))] : i \in 1..Len(d.c)}

AccountsB(f) == AccountsOf(StoreOf(f).v)

AccountsAt(us, f) == IF variant = "A" THEN AccountsA(us) ELSE AccountsB(f)

Accounts == AccountsAt(users, file)

StoreB == StoreOf(file)

Default == IF variant = "A" THEN DefaultA ELSE DefaultB

SignedUpNames == {s.username : s \in signups}

Quiet == \A t \in Threads : pc[t] = "idle"

(***************************************************************************)
(* C1: round trip. A successful load for account u returns the document of *)
(* the most recent successful save to u, or the default document written   *)
(* at signup when no save to u has succeeded yet.                          *)
(***************************************************************************)
C1_RoundTrip ==
    (resp.op \in {"load", "get_data"} /\ resp.success) =>
        resp.data = IF lastSaved[KeyStr(resp.username)] # NoDoc
                    THEN lastSaved[KeyStr(resp.username)]
                    ELSE Default

(***************************************************************************)
(* C2: a signup with a username that already signed up successfully        *)
(* answers 400 with success = false and leaves the store and the caller's  *)
(* session unchanged.                                                      *)
(***************************************************************************)
C2_DuplicateSignup ==
    [][(resp'.op = "signup" /\ resp'.username \in SignedUpNames) =>
          /\ resp'.status = 400
          /\ ~resp'.success
          /\ users' = users
          /\ file' = file
          /\ session' = session]_vars

(***************************************************************************)
(* C3: after a successful signup(u, p): login(u, p) answers 200 with       *)
(* success; login(u, q) with a password u never signed up with answers 401;*)
(* login with a username that never signed up answers 401.                 *)
(***************************************************************************)
C3_Login ==
    resp.op = "login" =>
        IF [username |-> resp.username, password |-> resp.password] \in signups
        THEN resp.status = 200 /\ resp.success
        ELSE resp.status = 401 /\ ~resp.success

SessionMatchesBinding ==
    \A c \in Clients :
        IF binding[c] = NoDoc
        THEN ~has_user_id(c)
        ELSE /\ has_user_id(c)
             /\ session_user(c) # 0
             /\ users[session_user(c)].username = binding[c]

(* C5: the session lifecycle of Variant A, over every step.                 *)
C5_SessionLifecycle ==
    [][/\ SessionMatchesBinding'
       /\ (resp'.op \in {"save", "load"}) =>
             (resp'.status = 401 <=> binding[resp'.client] = NoDoc)
       /\ (resp'.op \in {"save", "load"} /\ binding[resp'.client] # NoDoc) =>
             (resp'.success /\ resp'.username = binding[resp'.client])
       /\ resp'.op = "logout" =>
             /\ resp'.status = 200
             /\ resp'.success
             /\ session'[resp'.client] = <<>>
             /\ users' = users]_vars

C5_Witness ==
    /\ resp.op = "load" /\ resp.status = 401
    /\ \E i \in 1..Len(users) : lastSaved[users[i].username.s] # NoDoc
    /\ binding[resp.client] = NoDoc
    /\ \E c \in Clients : binding[c] # NoDoc

(***************************************************************************)
(* C6: the weather handler always answers 200 with a type among sunny,     *)
(* cloudy, rainy, snowy, whatever the two upstream calls gave; a code      *)
(* outside the listed cloudy, rainy and snowy codes gives sunny.           *)
(***************************************************************************)
C6_WeatherTotal ==
    resp.op = "weather" =>
        /\ resp.status = 200
        /\ resp.wtype \in {"sunny", "cloudy", "rainy", "snowy"}
        /\ (upstream.pc = "idle" /\ upstream.wx.kind = "code"
            /\ upstream.wx.code \notin Cloudy \cup Rainy \cup Snowy) =>
               resp.wtype = "sunny"

C6_Witness ==
    /\ resp.op = "weather" /\ upstream.pc = "idle"
    /\ upstream.wx.kind = "code" /\ upstream.wx.code = 395
    /\ resp.wtype = "sunny" /\ resp.status = 200

(***************************************************************************)
(* C7: when either upstream call fails, the handler answers the default    *)
(* response: type sunny and city Unknown. As claimed, with success = true; *)
(* as the code does it, with success = false (and status 200).             *)
(***************************************************************************)
UpstreamFailed ==
    /\ resp.op = "weather"
    /\ upstream.pc = "idle"
    /\ (LocFails(upstream.loc) \/ upstream.wx.kind \in {"raise", "nofield", "nonint"})

(* C7 as claimed: on an upstream failure the answer is the default with    *)
(* success = true, type sunny, city Unknown.                               *)
C7_DefaultOnFailure_Claimed ==
    UpstreamFailed =>
        resp.success /\ resp.wtype = "sunny" /\ resp.city = "Unknown"

(* C7 as the code does it: on an upstream failure the answer is status     *)
(* 200, success = false, type sunny, city Unknown.                         *)
C7_DefaultOnFailure ==
    UpstreamFailed =>
        /\ ~resp.success
        /\ resp.status = 200
        /\ resp.wtype = "sunny"
        /\ resp.city = "Unknown"

C7_Witness ==
    /\ UpstreamFailed
    /\ upstream.loc.kind = "city"
    /\ upstream.wx.kind = "nofield"
    /\ resp.city = "Unknown"

(***************************************************************************)
(* C8: account lifecycle. Whenever no request is in progress, every        *)
(* account created by a successful signup is in the store under its        *)
(* identifier with the credential it signed up with, and its game_state    *)
(* differs from the default only after a successful save to it.            *)
(***************************************************************************)
C8_Lifecycle ==
    Quiet =>
        \A s \in signups :
            \E a \in Accounts :
                /\ a.name = KeyStr(s.username)
                /\ a.cred = s.password
                /\ (a.doc # Default => lastSaved[a.name] # NoDoc)

(***************************************************************************)
(* C9: lost update in Variant B. What a request's save_db leaves in        *)
(* users.json is the dict that request read earlier plus its own change,   *)
(* whatever other requests wrote since (when the overlapping writes left   *)
(* JSON at all); so two successful requests can leave a file without the   *)
(* effect of one of them.                                                  *)
(***************************************************************************)
C9_StaleWriteWins ==
    [][\A t \in Threads :
          (pc[t] = "save_close" /\ pc'[t] = "idle" /\ loads(file'.text).ok) =>
              loads(file'.text).v = loads(dumps(localdb[t])).v]_vars

C9_LostUpdate ==
    /\ Quiet
    /\ StoreB.ok
    /\ [username |-> JStr("b"), password |-> RacePassword] \in signups
    /\ ~DictHas(StoreB.v, JStr("b"))
    /\ lastSaved["a"] = RaceDoc
    /\ DictHas(StoreB.v, JStr("a"))
    /\ DictGet(DictGet(StoreB.v, JStr("a")), JStr("game_data")) = RaceDoc

(***************************************************************************)
(* C10: with requests run one at a time, a successful save replaces the    *)
(* game_state of the identified account (A: the account the session is     *)
(* bound to; B: the account named by username) by the saved document and   *)
(* leaves every other account, every credential and the set of accounts    *)
(* unchanged.                                                              *)
(***************************************************************************)
SaveTarget(r) ==
    IF r.op = "save" THEN KeyStr(binding[r.client]) ELSE KeyStr(r.username)

(* C10: a successful save changes the target account's document only.      *)
C10_SaveFrame ==
    [][(resp'.op \in {"save", "save_data"} /\ resp'.success) =>
          \E old \in {Accounts}, target \in {SaveTarget(resp')},
             new \in {AccountsAt(us, f) : us \in {users'}, f \in {file'}} :
            /\ \E a \in old : a.name = target
            /\ new = {IF a.name = target THEN [a EXCEPT !.doc = lastSaved'[target]]
                      ELSE a : a \in old}]_vars

C10_Witness ==
    /\ resp.op \in {"save", "save_data"} /\ resp.success
    /\ \E a, b \in Accounts :
          /\ a.name = KeyStr(resp.username) /\ a.doc \in Docs
          /\ b.name # a.name /\ b.doc \in Docs /\ b.doc # a.doc

====
